---- MODULE Spec2Model ----
(***************************************************************************)
(* Model of CURocketEngineering/avionics_main:                             *)
(*   src/src/Avionics.py            the avionics main loop                 *)
(*   src/modules/Config.py          default constants and the Config object*)
(*   src/modules/simulation/drag.py the drag model and its driver          *)
(*                                                                         *)
(* Three specifications share the module:                                  *)
(*   Spec      Avionics.main_process, one step per statement of the loop   *)
(*   SpecDrag  the __main__ driver of drag.py (Mach sweep, then the filter *)
(*             of the reference data)                                      *)
(*   SpecLib   single calls of Rocket.a, Rocket.excrescencies_friction_drag*)
(*             and Config()                                                *)
(*                                                                         *)
(* Real numbers are fixed-point integers; the unit is stated where a       *)
(* quantity is introduced.                                                 *)
(***************************************************************************)
EXTENDS Integers, Sequences, FiniteSets

VARIABLES
    \* ---- Avionics.main_process ----
    conf,        \* self.conf: shutdown, FIDI, DEBUG, SIM, state, last_state
    pc,          \* position of main_process in its loop
    iter,        \* completed iterations (calls of act())
    events,      \* what the current iteration has done so far, in order
    startState,  \* conf.state when the current iteration began
    armForced,   \* times the loop body wrote conf.state = "ARM"
    hookCalls,   \* calls of activate_hook("arm_start")
    inputs,      \* calls of input() made by the loop body
    \* ---- drag.py __main__ ----
    dpc,         \* position of the driver
    drags,       \* one entry per drag estimate: the Rocket that computed it
    p,           \* the "Mach Number" column of the data frame read from the csv
    fi,          \* index of the filter loop
    last_mach,   \* last retained Mach number of the filter loop
    machs2,      \* retained Mach numbers
    \* ---- single calls of the library ----
    fn,          \* the function last called ("none" before any call)
    arg,         \* its argument
    res          \* its result

avVars   == <<conf, pc, iter, events, startState, armForced, hookCalls,
              inputs>>
dragVars == <<dpc, drags, p, fi, last_mach, machs2>>
libVars  == <<fn, arg, res>>
vars     == <<avVars, dragVars, libVars>>

(***************************************************************************)
(* Avionics.main_process                                                   *)
(***************************************************************************)

\* Iterations of the main loop the model follows.
MaxIter == 7

\* The flight phases in their one-directional order (spec 4.6).
States == <<"IDLE", "ARM", "COAST", "APOGEE", "DROGUE", "MAIN", "LANDED">>

IndexOf(s) == CHOOSE i \in 1..Len(States) : States[i] = s

Succ(s) == IF s = "LANDED" THEN s ELSE States[IndexOf(s) + 1]

\* Avionics.__init__: Config("config/config.json", "IDLE"); the flags come
\* from the configuration file.
AvInit ==
    /\ conf \in [shutdown : {FALSE}, FIDI : BOOLEAN, DEBUG : BOOLEAN,
                 SIM : BOOLEAN, state : {"IDLE"}, last_state : {"NONE", "IDLE"}]
    /\ pc = "loop"
    /\ iter = 0
    /\ events = <<>>
    /\ startState = "IDLE"
    /\ armForced = 0
    /\ hookCalls = 0
    /\ inputs = 0

\* A mutant of LoopCond: the FIDI override is dropped.
LoopCond_noFIDI(c) == ~c.shutdown

\* while (not self.conf.shutdown) or (self.conf.FIDI)
LoopCond(c) == (~c.shutdown) \/ c.FIDI

\* A mutant of SimMode: the simulation block runs in every mode.
SimMode_always(c) == TRUE

\* if self.conf.SIM
SimMode(c) == c.SIM

\* A mutant of NeedsArm: the forced transition is taken from ARM as well.
NeedsArm_wide(c) == c.state \in {"IDLE", "ARM"}

\* if self.conf.state == "IDLE"
NeedsArm(c) == c.state = "IDLE"

\* if self.conf.last_state != self.conf.state
StateChanged(c) == c.last_state # c.state

\* A mutant of AtPause: the pause is asked for in no state.
AtPause_never(c) == FALSE

\* if self.conf.state in ["APOGEE"]
AtPause(c) == c.state \in {"APOGEE"}

\* The loop condition: enter the body, or leave the loop.
LoopCheck ==
    /\ pc = "loop"
    /\ \/ /\ LoopCond(conf)
          /\ iter < MaxIter
          /\ pc' = "debug"
          /\ events' = <<>>
          /\ startState' = conf.state
       \/ /\ ~LoopCond(conf)
          /\ pc' = "done"
          /\ UNCHANGED <<events, startState>>
    /\ UNCHANGED <<conf, iter, armForced, hookCalls, inputs>>
    /\ UNCHANGED <<dragVars, libVars>>

\* if self.conf.DEBUG: print(...); then the test of self.conf.SIM
DebugPrint ==
    /\ pc = "debug"
    /\ events' = IF conf.DEBUG THEN Append(events, "print") ELSE events
    /\ pc' = IF SimMode(conf) THEN "sim_idle" ELSE "act"
    /\ UNCHANGED <<conf, iter, startState, armForced, hookCalls, inputs>>
    /\ UNCHANGED <<dragVars, libVars>>

\* if state == "IDLE": state = "ARM"; activate_hook("arm_start")
SimArm ==
    /\ pc = "sim_idle"
    /\ IF NeedsArm(conf)
         THEN /\ conf' = [conf EXCEPT !.state = "ARM"]
              /\ armForced' = armForced + 1
              /\ hookCalls' = hookCalls + 1
              /\ events' = Append(events, "arm_start")
         ELSE UNCHANGED <<conf, armForced, hookCalls, events>>
    /\ pc' = "sim_change"
    /\ UNCHANGED <<iter, startState, inputs>>
    /\ UNCHANGED <<dragVars, libVars>>

\* if last_state != state: input(f"STATE CHANGE: {state}")
SimStateChange ==
    /\ pc = "sim_change"
    /\ IF StateChanged(conf)
         THEN /\ events' = Append(events, "STATE CHANGE")
              /\ inputs' = inputs + 1
         ELSE UNCHANGED <<events, inputs>>
    /\ pc' = "sim_apogee"
    /\ UNCHANGED <<conf, iter, startState, armForced, hookCalls>>
    /\ UNCHANGED <<dragVars, libVars>>

\* if state in ["APOGEE"]: input("PAUSE BUFFER")
SimPause ==
    /\ pc = "sim_apogee"
    /\ IF AtPause(conf)
         THEN /\ events' = Append(events, "PAUSE BUFFER")
              /\ inputs' = inputs + 1
         ELSE UNCHANGED <<events, inputs>>
    /\ pc' = "act"
    /\ UNCHANGED <<conf, iter, startState, armForced, hookCalls>>
    /\ UNCHANGED <<dragVars, libVars>>

\* State.act(): at most one transition is made along the phase order,
\* entering ARM fires "arm_start", reaching LANDED (or an external control)
\* requests shutdown.  When act() writes last_state is not stated: a call
\* either leaves it or sets it to the state it was called in, which covers a
\* write at every call and a write at transitions only.
act(c, move, ext, fidi, remember) ==
    LET new == IF move THEN Succ(c.state) ELSE c.state
    IN  [c EXCEPT !.last_state = IF remember THEN c.state ELSE c.last_state,
                  !.state = new,
                  !.shutdown = c.shutdown \/ new = "LANDED" \/ ext,
                  !.FIDI = fidi]

\* self.rocket_state.act()
Act ==
    /\ pc = "act"
    /\ \E move \in BOOLEAN, ext \in BOOLEAN, fidi \in BOOLEAN,
          remember \in BOOLEAN :
          /\ conf' = act(conf, move, ext, fidi, remember)
          /\ hookCalls' = IF conf.state = "IDLE" /\ conf'.state = "ARM"
                            THEN hookCalls + 1 ELSE hookCalls
    /\ events' = Append(events, "act")
    /\ iter' = iter + 1
    /\ pc' = "loop"
    /\ UNCHANGED <<startState, armForced, inputs>>
    /\ UNCHANGED <<dragVars, libVars>>

AvNext == LoopCheck \/ DebugPrint \/ SimArm \/ SimStateChange \/ SimPause \/ Act

(***************************************************************************)
(* Exact arithmetic for the reals of drag.py.  A number is four limbs       *)
(* <<x1, x2, x3, x4>> standing for x1 + x2*10^4 + x3*10^8 + x4*10^12; in a *)
(* normalised number x1..x3 are in 0..9999 and x4 carries the sign.        *)
(***************************************************************************)

Norm(x) ==
    LET t2 == x[2] + (x[1] \div 10000)
        t3 == x[3] + (t2 \div 10000)
    IN  <<x[1] % 10000, t2 % 10000, t3 % 10000, x[4] + (t3 \div 10000)>>

FromInt(n) == Norm(<<n, 0, 0, 0>>)

\* x + y
Plus(x, y) == Norm(<<x[1] + y[1], x[2] + y[2], x[3] + y[3], x[4] + y[4]>>)

\* x - y
Minus(x, y) == Norm(<<x[1] - y[1], x[2] - y[2], x[3] - y[3], x[4] - y[4]>>)

\* x * n, for an integer n of at most six digits
Times(x, n) == Norm(<<x[1] * n, x[2] * n, x[3] * n, x[4] * n>>)

\* x * 10^4
Shift(x) == <<0, x[1], x[2], x[3] + 10000 * x[4]>>

\* x <= y
Leq(x, y) == Minus(y, x)[4] >= 0

\* |x - y| <= t
Within(x, y, t) == Leq(Minus(x, y), t) /\ Leq(Minus(y, x), t)

(***************************************************************************)
(* drag.py: Rocket.__init__ and the __main__ driver                        *)
(*   Mach numbers are in units of 0.0001, airspeeds in units of 0.1 ft/s.  *)
(***************************************************************************)

\* range(0,100): the number of sweep points.
SweepLen == 100

\* Rows of the reference data set the model follows.
MaxRows == 4

\* Mach numbers a row of the reference data set may hold: 0.1, 0.2, 0.3, 0.5,
\* and -200, which is below the initial last_mach.
MachSamples == {-2000000, 1000, 2000, 3000, 5000}

\* The conversion factor 0.0008957066031914082, in units of 1e-19.
MachPerFtS == <<4082, 3191, 660, 8957>>

\* The default airspeed 143.4 ft/s.
DefaultVelocity == 1434

\* A Mach number M [1e-4] in the units of an airspeed [0.1 ft/s] times the
\* factor [1e-19]: M * 10^16.
MachE16(M) == <<0, 0, 0, M * 10000>>

\* v is M / factor, cut to 0.1 ft/s: v * factor <= M < (v + 1) * factor.
IsQuotient(v, M) ==
    /\ Leq(Times(MachPerFtS, v), MachE16(M))
    /\ ~Leq(Times(MachPerFtS, v + 1), MachE16(M))

\* self.velocity * 0.0008957066031914082, cut to 1e-4: the product is in
\* units of 1e-20, its fourth limb in units of 1e-8.
MachOf(velocity) == Times(MachPerFtS, velocity)[4] \div 10000

\* self.M / 0.0008957066031914082, cut to 0.1 ft/s: the quotient by the factor
\* cut to 89571e-8 is at most one unit off, and the exact test picks the digit.
VelocityOf(M) ==
    LET est == (M * 100000) \div 89571
    IN  CHOOSE v \in (est - 1)..(est + 2) : IsQuotient(v, M)

\* Rocket.__init__: the Mach number and the airspeed of the new Rocket.
Rocket(mach) ==
    IF mach = 0
      THEN [velocity |-> DefaultVelocity,
            M |-> MachOf(DefaultVelocity)]
      ELSE [M |-> mach,
            velocity |-> VelocityOf(mach)]

\* machs = [mach*.01 for mach in range(0,100)], indexed from 0.
machs(i) == i * 100

DragInit ==
    /\ dpc = "sweep"
    /\ drags = <<>>
    /\ p = <<>>
    /\ fi = 0
    /\ last_mach = -1000000
    /\ machs2 = <<>>

\* for i, emach in enumerate(machs): r = Rocket(mach=emach);
\*     drags.append(r.drag_coefficient(h=height))
\* The entry appended records the Rocket that computed the estimate.
Sweep ==
    /\ dpc = "sweep"
    /\ IF Len(drags) < SweepLen
         THEN LET emach == machs(Len(drags))
                  r == Rocket(emach)
              IN  /\ drags' = Append(drags, [emach |-> emach, M |-> r.M,
                                             velocity |-> r.velocity])
                  /\ dpc' = "sweep"
         ELSE /\ dpc' = "continue"
              /\ UNCHANGED drags
    /\ UNCHANGED <<p, fi, last_mach, machs2>>
    /\ UNCHANGED <<avVars, libVars>>

\* input("continue")
Continue ==
    /\ dpc = "continue"
    /\ dpc' = "read"
    /\ UNCHANGED <<drags, p, fi, last_mach, machs2>>
    /\ UNCHANGED <<avVars, libVars>>

\* p = pd.read_csv(f): any data set of at most MaxRows rows.
ReadCsv ==
    /\ dpc = "read"
    /\ \E n \in 0..MaxRows : \E s \in [1..n -> MachSamples] : p' = s
    /\ dpc' = "filter"
    /\ UNCHANGED <<drags, fi, last_mach, machs2>>
    /\ UNCHANGED <<avVars, libVars>>

\* if last_mach > p["Mach Number"][i]: continue
Skip(last, m) == last > m

\* One pass of the loop "for i in range(len(p))"; fi counts the rows done.
\* drags2 takes the CD of the rows machs2 takes the Mach number of, and
\* last_height is written and never read.
Filter ==
    /\ dpc = "filter"
    /\ IF fi < Len(p)
         THEN /\ fi' = fi + 1
              /\ IF Skip(last_mach, p[fi + 1])
                   THEN UNCHANGED <<last_mach, machs2>>
                   ELSE /\ last_mach' = p[fi + 1]
                        /\ machs2' = Append(machs2, p[fi + 1])
              /\ dpc' = "filter"
         ELSE /\ dpc' = "plot"
              /\ UNCHANGED <<fi, last_mach, machs2>>
    /\ UNCHANGED <<drags, p>>
    /\ UNCHANGED <<avVars, libVars>>

DragNext == Sweep \/ Continue \/ ReadCsv \/ Filter

(***************************************************************************)
(* drag.py: Rocket.a, the speed of sound, in units of 0.0001 ft/s; the     *)
(* altitude h is in whole feet.                                            *)
(***************************************************************************)

\* Altitudes the model calls Rocket.a with: 0..MaxAlt feet.
MaxAlt == 70000

\* return -.004*h + 1116.45
a_first(h) == 11164500 - 40 * h

\* return 968.08
a_second == 9680800

\* return 0.0007*h + 924.99
a_third(h) == 7 * h + 9249900

\* A mutant of a: the segment tests are strict.
a_strict(h) ==
    IF h < 37000 THEN a_first(h)
    ELSE IF h < 64000 THEN a_second
    ELSE a_third(h)

\* Rocket.a(h)
a(h) ==
    IF h <= 37000 THEN a_first(h)
    ELSE IF h <= 64000 THEN a_second
    ELSE a_third(h)

(***************************************************************************)
(* drag.py: the coefficient k of Rocket.excrescencies_friction_drag.       *)
(* self.M is m/100; k is exact, in units of 1e-13.  The value returned,    *)
(* k * 4 * S_B / (PI * (2*radius)^2), is k times a constant of the         *)
(* geometry.                                                               *)
(***************************************************************************)

\* Mach numbers the model calls the function with: 0.01 .. MaxMach/100.
MaxMach == 120

\* x * 10^5, x * 10^7, x * 10^8, x * 10^9
E5(x) == Times(x, 100000)
E7(x) == Times(Shift(x), 1000)
E8(x) == Shift(Shift(x))
E9(x) == Times(Shift(Shift(x)), 10)

\* k = 0.00038
k_low == E8(FromInt(38))

\* A mutant of k_mid: two digits of the cubic coefficient are exchanged.
k_mid_typo(m) ==
    Minus(Plus(Times(Times(FromInt(m * m * m), 15945), 1000),
               E7(Times(FromInt(m), 12288))),
          Plus(Times(Times(FromInt(m * m * m * m), 4501), 10),
               Plus(E5(Times(FromInt(m * m), 21062)), E8(FromInt(26717)))))

\* k = -.4501*M**4 + 1.5954*M**3 - 2.1062*M**2 + 1.2288*M - .26717
k_mid(m) ==
    Minus(Plus(Times(Times(FromInt(m * m * m), 15954), 1000),
               E7(Times(FromInt(m), 12288))),
          Plus(Times(Times(FromInt(m * m * m * m), 4501), 10),
               Plus(E5(Times(FromInt(m * m), 21062)), E8(FromInt(26717)))))

\* k = .0002*M**2 - .0012*M + .0018
k_high(m) ==
    Minus(Plus(E5(Times(FromInt(m * m), 2)), E9(FromInt(18))),
          E7(Times(FromInt(m), 12)))

\* The choice of k in Rocket.excrescencies_friction_drag, self.M = m/100.
excrescencies_k(m) ==
    IF m < 78 THEN [regime |-> "low", k |-> k_low]
    ELSE IF m <= 104 THEN [regime |-> "mid", k |-> k_mid(m)]
    ELSE [regime |-> "high", k |-> k_high(m)]

(***************************************************************************)
(* Config.py: the module-level defaults and the Config object.  Times are  *)
(* in units of 0.1 s, the altitude in feet.                                *)
(***************************************************************************)

DEBUG == FALSE

PARACHUTE_CHARGE_TIME == 5

APOGEE_DELAY == 0

MAIN_ALTITUDE == 1000

MAIN_DELAY == 0

\* Config.__init__
Config ==
    [DEBUG |-> TRUE,
     Test |-> FALSE,
     PARACHUTE_CHARGE_TIME |-> 5,
     APOGEE_DELAY |-> 0,
     MAIN_ALTITUDE |-> 1000,
     MAIN_DELAY |-> 0]

(***************************************************************************)
(* Single calls of the library: one call per behaviour, on any input.      *)
(***************************************************************************)

LibInit ==
    /\ fn = "none"
    /\ arg = 0
    /\ res = 0

\* Rocket.a(h)
Call_a ==
    /\ fn = "none"
    /\ \E h \in 0..MaxAlt :
          /\ arg' = h
          /\ res' = a(h)
    /\ fn' = "a"
    /\ UNCHANGED <<avVars, dragVars>>

\* Rocket(mach=m/100).excrescencies_friction_drag(), as far as k
Call_k ==
    /\ fn = "none"
    /\ \E m \in 1..MaxMach :
          /\ arg' = m
          /\ res' = excrescencies_k(Rocket(m * 100).M \div 100)
    /\ fn' = "k"
    /\ UNCHANGED <<avVars, dragVars>>

\* Config()
Call_Config ==
    /\ fn = "none"
    /\ arg' = 0
    /\ res' = Config
    /\ fn' = "Config"
    /\ UNCHANGED <<avVars, dragVars>>

LibNext == Call_a \/ Call_k \/ Call_Config

(***************************************************************************)
(* The specifications                                                      *)
(***************************************************************************)

\* The avionics process where it is not the program that runs.
AvIdle ==
    /\ AvInit
    /\ conf = [shutdown |-> FALSE, FIDI |-> FALSE, DEBUG |-> FALSE,
               SIM |-> FALSE, state |-> "IDLE", last_state |-> "NONE"]

\* Avionics().main_process()
Init == AvInit /\ DragInit /\ LibInit

Next == AvNext

Spec == Init /\ [][Next]_vars

\* python drag.py
InitDrag == AvIdle /\ DragInit /\ LibInit

SpecDrag == InitDrag /\ [][DragNext]_vars

\* one call of a library function
InitLib == AvIdle /\ DragInit /\ LibInit

SpecLib == InitLib /\ [][LibNext]_vars

(***************************************************************************)
(* The claims                                                              *)
(***************************************************************************)

\* The current iteration has done e.
Has(e) == \E i \in DOMAIN events : events[i] = e

\* How many times the current iteration has done e.
Count(e) == Cardinality({i \in DOMAIN events : events[i] = e})

\* In the current iteration every e1 came before every e2.
Before(e1, e2) ==
    \A i, j \in DOMAIN events :
        (events[i] = e1 /\ events[j] = e2) => i < j

\* C1: a step from the loop condition leaves the loop exactly when the
\* shutdown flag is set and FIDI is false; while FIDI is true the loop is
\* not left, whatever the shutdown flag.
C1_LoopExit ==
    [][pc = "loop" => ((pc' = "done") <=> (conf.shutdown /\ ~conf.FIDI))]_vars

\* C1 witness: the loop was left after at least one iteration.
C1_Witness == pc = "done" /\ iter >= 1 /\ conf.shutdown /\ ~conf.FIDI

\* C4: in simulation mode the loop body forces IDLE -> ARM at most once, and
\* exactly once as soon as an iteration has run; every forced transition
\* calls activate_hook("arm_start") once; an iteration sets ARM and calls the
\* hook exactly when it began in IDLE.
C4_ArmOnce ==
    conf.SIM =>
        /\ armForced <= 1
        /\ hookCalls = armForced
        /\ (iter >= 1 => armForced = 1)
        /\ (pc \in {"sim_change", "sim_apogee", "act"} =>
               /\ Count("arm_start") = (IF startState = "IDLE" THEN 1 ELSE 0)
               /\ (startState = "IDLE" => conf.state = "ARM")
               /\ (startState # "IDLE" => conf.state = startState))

\* C4 witness: a second iteration that began in ARM has passed the forced
\* transition without taking it.
C4_Witness ==
    /\ conf.SIM
    /\ pc = "act"
    /\ iter >= 1
    /\ startState = "ARM"
    /\ armForced = 1
    /\ hookCalls = 1

\* C9: every iteration calls act() exactly once, as its last step; in
\* simulation mode an iteration asks for the "PAUSE BUFFER" confirmation
\* exactly when its state is APOGEE, before act() and after the state-change
\* confirmation of the same iteration.
C9_ActLast ==
    /\ (pc = "loop" /\ iter >= 1 =>
           /\ Count("act") = 1
           /\ events[Len(events)] = "act")
    /\ (pc \notin {"loop", "done"} => ~Has("act"))
    /\ (conf.SIM /\ pc = "act" =>
           (Count("PAUSE BUFFER") = IF conf.state = "APOGEE" THEN 1 ELSE 0))
    /\ (~conf.SIM => ~Has("PAUSE BUFFER"))
    /\ Before("PAUSE BUFFER", "act")
    /\ Before("STATE CHANGE", "PAUSE BUFFER")

\* C9 witness: an iteration that asked both confirmations and then acted.
C9_Witness ==
    /\ conf.SIM
    /\ pc = "loop"
    /\ Has("STATE CHANGE")
    /\ Has("PAUSE BUFFER")
    /\ events[Len(events)] = "act"

\* C10: a step of the loop body other than the call of act() leaves the
\* shutdown flag, FIDI and last_state alone, and with SIM false it leaves the
\* flight state alone, calls no hook and asks for no input.
C10_Frame ==
    [][pc # "act" =>
          /\ conf'.shutdown = conf.shutdown
          /\ conf'.FIDI = conf.FIDI
          /\ conf'.last_state = conf.last_state
          /\ (~conf.SIM =>
                 /\ conf'.state = conf.state
                 /\ hookCalls' = hookCalls
                 /\ inputs' = inputs)]_vars

\* C10 witness: with SIM false the body has run a second time, after act()
\* moved the state and requested shutdown, and nothing was asked.
C10_Witness ==
    /\ ~conf.SIM
    /\ pc = "act"
    /\ iter >= 1
    /\ conf.state # "IDLE"
    /\ conf.shutdown
    /\ conf.FIDI
    /\ inputs = 0

\* C2: the retained Mach numbers are strictly increasing: every retained
\* value is greater than the one retained before it.
C2_StrictlyIncreasing ==
    \A j \in 1..(Len(machs2) - 1) : machs2[j] < machs2[j + 1]

\* C5: the sweep makes SweepLen estimates, and the i-th is computed by a
\* Rocket whose Mach number is i*0.01 and whose airspeed is that Mach number
\* divided by the conversion factor.
C5_SweepMach ==
    /\ (dpc # "sweep" => Len(drags) = SweepLen)
    /\ \A i \in 1..Len(drags) :
           /\ drags[i].M = machs(i - 1)
           /\ IsQuotient(drags[i].velocity, machs(i - 1))

\* C3 as stated: at h = 37000 the first segment meets the constant of the
\* second, and at h = 64000 the constant meets the third segment, to within
\* one unit (0.0001 ft/s).
C3_Continuous ==
    fn = "a" =>
        /\ (arg = 37000 => res - a_second \in -1..1)
        /\ (arg = 64000 => a_third(arg) - res \in -1..1)

\* C3 as amended: a(37000) is the first segment's 968.45, 0.37 ft/s above the
\* constant 968.08 of the second segment; a(64000) is that constant, 1.71 ft/s
\* below the third segment's 969.79.
C3_Jumps ==
    fn = "a" =>
        /\ (arg = 37000 => res = a_first(arg) /\ res - a_second = 3700)
        /\ (arg = 64000 => res = a_second /\ a_third(arg) - res = 17100)

\* C3 witness: Rocket.a was called at the first boundary.
C3_Witness == fn = "a" /\ arg = 37000 /\ res = 9684500

\* The tolerance 1e-5 of C6, in units of 1e-13.
Tol == FromInt(100000000)

\* C6: k is 0.00038 below M = 0.78, the quartic from 0.78 to 1.04 and the
\* quadratic above; at M = 0.78 the quartic is within 1e-5 of 0.00038 and at
\* M = 1.04 it is within 1e-5 of the quadratic.
C6_kContinuous ==
    fn = "k" =>
        /\ (arg < 78 => res.regime = "low" /\ res.k = k_low)
        /\ (arg >= 78 /\ arg <= 104 => res.regime = "mid")
        /\ (arg > 104 => res.regime = "high")
        /\ (arg = 78 => Within(res.k, k_low, Tol))
        /\ (arg = 104 => Within(res.k, k_high(arg), Tol))

\* C6 witness: the function was called at M = 1.04 and took the quartic.
C6_Witness == fn = "k" /\ arg = 104 /\ res.regime = "mid"

\* C7: the attributes of a new Config object equal the module-level defaults
\* of the same names.
C7_DefaultsAgree ==
    fn = "Config" =>
        /\ res.DEBUG = DEBUG
        /\ res.PARACHUTE_CHARGE_TIME = PARACHUTE_CHARGE_TIME
        /\ res.APOGEE_DELAY = APOGEE_DELAY
        /\ res.MAIN_ALTITUDE = MAIN_ALTITUDE
        /\ res.MAIN_DELAY = MAIN_DELAY

====
